---------------------------- MODULE Spec2Model ----------------------------
(***************************************************************************)
(* State-machine model of update-pactometro.mjs (the current version of    *)
(* the script, lines 218-460 of the source file): one batch run fetches    *)
(* the snapshot id (getCurrentNumEnv), fetches the totals of that snapshot *)
(* and finds its CM line (getTotalesLineaCM), decodes the line             *)
(* (getPctEscrutadoFromLineaCM, parseCandidaturasFromLineaCM) and upserts  *)
(* one row per candidacy into the table pactometro_results                 *)
(* (upsertCandidaturasEnSupabase).  The environment checks of lines        *)
(* 232-240 are taken to have passed.                                       *)
(*                                                                         *)
(* Representation.  A JavaScript string is a sequence of one-character     *)
(* strings.  A JavaScript number-or-null is a record [k, v] with k one of  *)
(* "num", "null", "nan" and the number the fraction v/d in lowest terms:   *)
(* 37.81 is [v |-> 3781, d |-> 100].  A totals body is a sequence of lines *)
(* and a line is the sequence of its ';'-separated fields.                 *)
(***************************************************************************)
EXTENDS Integers, Sequences, FiniteSets, TLC

(***************************************************************************)
(* Bounds of the model.                                                    *)
(***************************************************************************)
MaxSnap == 2        \* snapshots the feed publishes
MaxRuns == 2        \* runs started in one behaviour
MaxBody == 3        \* characters of a snapshot-index body (resolver inputs)
MaxGroups == 2      \* complete 5-field groups of a decoder input
MaxRest == 3        \* fields of the trailing remainder of a decoder input

(***************************************************************************)
(* JavaScript values.                                                      *)
(***************************************************************************)
Num(n) == [k |-> "num", v |-> n, d |-> 1]
Null == [k |-> "null", v |-> 0, d |-> 1]
NaN == [k |-> "nan", v |-> 0, d |-> 1]

WS == {" ", "\t", "\n", "\r"}
Digits == <<"0", "1", "2", "3", "4", "5", "6", "7", "8", "9">>
DigitSet == {Digits[i] : i \in 1..10}
DigitVal(c) == (CHOOSE i \in 1..10 : Digits[i] = c) - 1
Upper == <<"A", "B", "C", "D", "E", "F", "G", "H", "I", "J", "K", "L", "M",
           "N", "O", "P", "Q", "R", "S", "T", "U", "V", "W", "X", "Y", "Z">>
Lower == <<"a", "b", "c", "d", "e", "f", "g", "h", "i", "j", "k", "l", "m",
           "n", "o", "p", "q", "r", "s", "t", "u", "v", "w", "x", "y", "z">>
\* the class [a-z0-9_] of the second replace of partyId
WordChars == {Lower[i] : i \in 1..26} \cup DigitSet \cup {"_"}

\* String.prototype.trim
RECURSIVE TrimLeft(_)
TrimLeft(s) == IF s # <<>> /\ Head(s) \in WS THEN TrimLeft(Tail(s)) ELSE s
RECURSIVE TrimRight(_)
TrimRight(s) ==
  IF s # <<>> /\ s[Len(s)] \in WS THEN TrimRight(SubSeq(s, 1, Len(s) - 1)) ELSE s
Trim(s) == TrimRight(TrimLeft(s))

\* String.prototype.split(sep) for a one-character separator: always at
\* least one part, "" splits to [""]
RECURSIVE SplitFrom(_, _, _)
SplitFrom(s, sep, cur) ==
  IF s = <<>> THEN <<cur>>
  ELSE IF Head(s) = sep THEN <<cur>> \o SplitFrom(Tail(s), sep, <<>>)
  ELSE SplitFrom(Tail(s), sep, Append(cur, Head(s)))
Split(s, sep) == SplitFrom(s, sep, <<>>)

\* String.prototype.toLowerCase on the ASCII alphabet
LowerChar(c) ==
  IF \E i \in 1..26 : Upper[i] = c
  THEN Lower[CHOOSE i \in 1..26 : Upper[i] = c]
  ELSE c
toLowerCase(s) == [i \in 1..Len(s) |-> LowerChar(s[i])]

\* .replace(/\s+/g, '_'): every maximal run of whitespace becomes one '_'
RECURSIVE ReplaceWsRuns(_)
ReplaceWsRuns(s) ==
  IF s = <<>> THEN <<>>
  ELSE IF Head(s) \in WS THEN <<"_">> \o ReplaceWsRuns(TrimLeft(s))
  ELSE <<Head(s)>> \o ReplaceWsRuns(Tail(s))

\* .replace(/[^a-z0-9_]/g, '')
StripNonWord(s) == SelectSeq(s, LAMBDA c : c \in WordChars)

\* Number(s) for the strings of the model: whitespace is trimmed, "" is 0,
\* an optionally signed run of decimal digits is its value, the rest is NaN
RECURSIVE DecVal(_)
DecVal(s) ==
  IF s = <<>> THEN 0 ELSE 10 * DecVal(SubSeq(s, 1, Len(s) - 1)) + DigitVal(s[Len(s)])
AllDigits(s) == s # <<>> /\ \A i \in 1..Len(s) : s[i] \in DigitSet
Number(s) ==
  LET t == Trim(s) IN
  IF t = <<>> THEN Num(0)
  ELSE IF AllDigits(t) THEN Num(DecVal(t))
  ELSE IF Head(t) = "+" /\ AllDigits(Tail(t)) THEN Num(DecVal(Tail(t)))
  ELSE IF Head(t) = "-" /\ AllDigits(Tail(t)) THEN Num(0 - DecVal(Tail(t)))
  ELSE NaN
\* x / 100 on JavaScript numbers (NaN / 100 is NaN), in lowest terms
RECURSIVE Gcd(_, _)
Gcd(a, b) == IF b = 0 THEN a ELSE Gcd(b, a % b)
Abs(n) == IF n < 0 THEN 0 - n ELSE n
Div100(x) ==
  IF x.k # "num" THEN x
  ELSE LET g == Gcd(Abs(x.v), 100 * x.d)
       IN  [k |-> "num", v |-> x.v \div g, d |-> (100 * x.d) \div g]

(***************************************************************************)
(* The candidacy decoder.                                                  *)
(***************************************************************************)
NUM_HEADER_FIELDS == 22
GROUP_FIELDS == 5

PODEMOS_IU_AV == <<"P", "O", "D", "E", "M", "O", "S", "-", "I", "U", "-", "A", "V">>
UNIDAS_POR_EXTREMADURA ==
  <<"U", "n", "i", "d", "a", "s", " ", "p", "o", "r", " ",
    "E", "x", "t", "r", "e", "m", "a", "d", "u", "r", "a">>
SENTINEL_0000 == <<"0", "0", "0", "0">>

\* Array.prototype.slice(n)
Slice(fields, n) == IF Len(fields) <= n THEN <<>> ELSE SubSeq(fields, n + 1, Len(fields))

\* the party_id of a trimmed short name (siglas)
partyId(siglas) == StripNonWord(ReplaceWsRuns(toLowerCase(siglas)))

\* the party_name of a trimmed short name
displayName(siglas) == IF siglas = PODEMOS_IU_AV THEN UNIDAS_POR_EXTREMADURA ELSE siglas

\* variant: the test of the empty short name is left out
skipsGroup_anyName(codigo, siglas) == codigo = <<>> \/ codigo = SENTINEL_0000

\* the test of the two `continue` statements: the group yields no result
skipsGroup(codigo, siglas) == codigo = <<>> \/ codigo = SENTINEL_0000 \/ siglas = <<>>

\* variant: the identifier is derived from the display name
candidatura_idOfDisplayName(codigo, siglas, votosRaw, pctRaw, escanosRaw) ==
  [party_id |-> partyId(displayName(siglas)),
   party_name |-> displayName(siglas),
   seats_2025 |-> IF escanosRaw # <<>> THEN Number(escanosRaw) ELSE Num(0),
   vote_pct_2025 |-> IF pctRaw # <<>> THEN Div100(Number(pctRaw)) ELSE Null,
   votos_totales |-> IF votosRaw # <<>> THEN Number(votosRaw) ELSE Num(0),
   codigo_candidatura |-> codigo]

\* the object pushed for a retained group
candidatura(codigo, siglas, votosRaw, pctRaw, escanosRaw) ==
  [party_id |-> partyId(siglas),
   party_name |-> displayName(siglas),
   seats_2025 |-> IF escanosRaw # <<>> THEN Number(escanosRaw) ELSE Num(0),
   vote_pct_2025 |-> IF pctRaw # <<>> THEN Div100(Number(pctRaw)) ELSE Null,
   votos_totales |-> IF votosRaw # <<>> THEN Number(votosRaw) ELSE Num(0),
   codigo_candidatura |-> codigo]

\* the loop `for (let i = 0; i + 4 < candidaturaFields.length; i += 5)`
\* with i the 0-based index of the group's first field
RECURSIVE parseLoop(_, _)
parseLoop(cf, i) ==
  IF ~(i + (GROUP_FIELDS - 1) < Len(cf)) THEN <<>>
  ELSE LET codigo == Trim(cf[i + 1])
           siglas == Trim(cf[i + 2])
       IN  (IF skipsGroup(codigo, siglas) THEN <<>>
            ELSE <<candidatura(codigo, siglas, cf[i + 3], cf[i + 4], cf[i + 5])>>)
           \o parseLoop(cf, i + GROUP_FIELDS)

parseCandidaturasFromLineaCM(fields) == parseLoop(Slice(fields, NUM_HEADER_FIELDS), 0)

\* fields[9], whose two last digits are decimals; null when empty or NaN
PCT_FIELD == 9
getPctEscrutadoFromLineaCM(fields) ==
  LET raw == IF Len(fields) > PCT_FIELD /\ fields[PCT_FIELD + 1] # <<>>
             THEN Trim(fields[PCT_FIELD + 1]) ELSE <<>>
  IN  IF raw = <<>> THEN Null
      ELSE IF Number(raw).k = "nan" THEN Null
      ELSE Div100(Number(raw))

(***************************************************************************)
(* The sequence resolver and the record locator.                           *)
(***************************************************************************)
\* variant: the first version of the function, which reads parts[1] as it
\* is and has no single-field case
getCurrentNumEnv_v1(csv) ==
  LET line == Split(Trim(csv), "\n")[1]
      parts == Split(line, ";")
  IN  IF Len(parts) = 1 THEN <<>> ELSE parts[2]

\* getCurrentNumEnv after the fetch: the first line of the trimmed body,
\* split on ';'; <<>> is the empty value on which it throws
getCurrentNumEnv(csv) ==
  LET line == Split(Trim(csv), "\n")[1]
      parts == Split(line, ";")
  IN  IF Len(parts) = 1 THEN Trim(parts[1]) ELSE Trim(parts[2])

TAG_CM == <<"C", "M">>
TAG_PR == <<"P", "R">>
isCM(line) == Len(line) >= 2 /\ line[2] = TAG_CM

\* variant: the tag compared is that of the province records
getTotalesLineaCM_tagPR(lines) ==
  IF \E i \in 1..Len(lines) : Len(lines[i]) >= 2 /\ lines[i][2] = TAG_PR
  THEN CHOOSE i \in 1..Len(lines) :
         /\ Len(lines[i]) >= 2 /\ lines[i][2] = TAG_PR
         /\ \A j \in 1..(i - 1) : ~(Len(lines[j]) >= 2 /\ lines[j][2] = TAG_PR)
  ELSE 0

\* lines.find(line => line.split(';')[1] === 'CM'): the index of the first
\* CM line, 0 when find returns undefined
getTotalesLineaCM(lines) ==
  IF \E i \in 1..Len(lines) : isCM(lines[i])
  THEN CHOOSE i \in 1..Len(lines) : isCM(lines[i]) /\ \A j \in 1..(i - 1) : ~isCM(lines[j])
  ELSE 0

(***************************************************************************)
(* The reconciliation: the rows of the upsert and the table after it.      *)
(***************************************************************************)
TABLE == "pactometro_results"

\* new Map(existentes.map(row => [row.party_id, row.seats_2023]))
mapaExistentes(table) == [id \in DOMAIN table |-> table[id].seats_2023]

\* variant: the carry-over is forgotten and every row restarts at 0
seats2023_reset(mapa, id) == Num(0)

\* the seats_2023 of the row built for party_id id
seats2023(mapa, id) == IF id \in DOMAIN mapa THEN mapa[id] ELSE Num(0)

\* variant: pct_escrutado is filled from the candidacy's own percentage
upsertRow_wrongPct(c, mapa, pctEscrutado, now) ==
  [party_id |-> c.party_id,
   party_name |-> c.party_name,
   seats_2025 |-> c.seats_2025,
   vote_pct_2025 |-> c.vote_pct_2025,
   seats_2023 |-> seats2023(mapa, c.party_id),
   updated_at |-> now,
   pct_escrutado |-> c.vote_pct_2025]

\* the object returned by the callback of candidaturas.map
upsertRow(c, mapa, pctEscrutado, now) ==
  [party_id |-> c.party_id,
   party_name |-> c.party_name,
   seats_2025 |-> c.seats_2025,
   vote_pct_2025 |-> c.vote_pct_2025,
   seats_2023 |-> seats2023(mapa, c.party_id),
   updated_at |-> now,
   pct_escrutado |-> pctEscrutado]

buildRows(candidaturas, mapa, pctEscrutado, now) ==
  [i \in 1..Len(candidaturas) |-> upsertRow(candidaturas[i], mapa, pctEscrutado, now)]

RowIds(rows) == {rows[i].party_id : i \in 1..Len(rows)}
\* a batch that names one party_id twice: the store rejects the whole
\* statement (ON CONFLICT DO UPDATE cannot affect a row a second time)
HasDuplicateIds(rows) == Cardinality(RowIds(rows)) # Len(rows)

\* the columns a row of the upsert sets, the conflict key apart
RowColumns(row) ==
  [party_name |-> row.party_name,
   seats_2025 |-> row.seats_2025,
   vote_pct_2025 |-> row.vote_pct_2025,
   seats_2023 |-> row.seats_2023,
   updated_at |-> row.updated_at,
   pct_escrutado |-> row.pct_escrutado]

\* variant: the table is replaced by the batch instead of merged with it
applyUpsert_replace(table, rows) ==
  [id \in RowIds(rows) |->
     RowColumns(rows[CHOOSE i \in 1..Len(rows) : rows[i].party_id = id])]

\* .upsert(rows, { onConflict: 'party_id' }) on a batch of distinct keys
applyUpsert(table, rows) ==
  [id \in DOMAIN table \cup RowIds(rows) |->
     IF id \in RowIds(rows)
     THEN RowColumns(rows[CHOOSE i \in 1..Len(rows) : rows[i].party_id = id])
     ELSE table[id]]

(***************************************************************************)
(* The feed: what the two endpoints of the electoral authority serve.      *)
(***************************************************************************)
PP == <<"P", "P">>
P_P == <<"P", "-", "P">>
VOX == <<"V", "O", "X">>
BADAJOZ == <<"B", "a", "d", "a", "j", "o", "z">>
CACERES == <<"C", "a", "c", "e", "r", "e", "s">>
REGION == <<"E", "x", "t">>

\* the 22 header fields of a totals line: field 1 the record tag, field 5
\* the name, field 9 the percentage of the roll counted
Hdr(tag, name, pct) ==
  [i \in 1..NUM_HEADER_FIELDS |->
     IF i = 2 THEN tag ELSE IF i = 6 THEN name
     ELSE IF i = PCT_FIELD + 1 THEN pct ELSE <<"0">>]

C1Code == <<"0", "0", "0", "1">>
C2Code == <<"0", "0", "0", "2">>

\* snapshot bodies, as the lines of csv.trim().split('\n')
BodyE2E ==
  << Hdr(TAG_CM, REGION, <<"5", "6", "7", "8">>)
       \o <<C1Code, PP, <<"1", "0">>, <<"3", "7", "8", "1">>, <<"5">>>>,
     Hdr(TAG_PR, BADAJOZ, <<"6", "0", "0", "0">>)
       \o <<C1Code, PP, <<"6">>, <<"4", "0", "0", "0">>, <<"3">>>>,
     Hdr(TAG_PR, CACERES, <<"5", "0", "0", "0">>)
       \o <<C1Code, PP, <<"4">>, <<"3", "5", "0", "0">>, <<"2">>>> >>
BodyLater ==
  << Hdr(TAG_CM, REGION, <<"9", "0", "0", "0">>)
       \o <<C1Code, PP, <<"2", "0">>, <<"4", "0", "1", "2">>, <<"7">>,
            C2Code, PODEMOS_IU_AV, <<"9">>, <<>>, <<"1">>>> >>
BodyNoCM ==
  << Hdr(TAG_PR, BADAJOZ, <<>>) \o <<C1Code, PP, <<"6">>, <<"0">>, <<"3">>>> >>
BodyUnused ==
  << Hdr(TAG_CM, REGION, <<>>)
       \o <<SENTINEL_0000, PP, <<"1">>, <<"1">>, <<"1">>,
            <<" ">>, VOX, <<>>, <<>>, <<>>, C1Code, <<" ">>, <<"2">>>> >>
BodyClash ==
  << Hdr(TAG_CM, REGION, <<"x">>)
       \o <<C1Code, PP, <<"3">>, <<"5", "0">>, <<"1">>,
            C2Code, P_P, <<"2">>, <<"2", "5">>, <<"0">>>> >>
BodyTwoCM ==
  << Hdr(TAG_PR, CACERES, <<"1">>) \o <<C1Code, PP, <<"4">>, <<"0">>, <<"2">>>>,
     Hdr(TAG_CM, REGION, <<"1", "0", "0">>)
       \o <<C2Code, VOX, <<"8">>, <<"1", "2", "0", "0">>, <<"2">>>>,
     Hdr(TAG_CM, REGION, <<"2", "0", "0">>)
       \o <<C1Code, PP, <<"8">>, <<"9", "9">>, <<"4">>>> >>

\* the publication histories of the model: snapshot n carries body
\* feed[n], cyclically
Feeds ==
  { <<BodyE2E, BodyLater>>, <<BodyE2E, BodyE2E, BodyLater>>, <<BodyLater, BodyE2E>>,
    <<BodyClash, BodyNoCM>>, <<BodyUnused, BodyTwoCM>>, <<BodyTwoCM, BodyClash>> }
TotalesOf(f, n) == f[((n - 1) % Len(f)) + 1]

\* the snapshot id of the n-th publication: "51", "52", ...
IdStr(n) == <<"5", Digits[(n % 10) + 1]>>
\* the layouts of the snapshot-index body: "51\n", "20;51;x", and a
\* publication whose second field is blank, "20; ;x"
EnvioBodies(n) ==
  { IdStr(n) \o <<"\n">>, <<"2", "0", ";">> \o IdStr(n) \o <<";", "x">>,
    <<"2", "0", ";", " ", ";", "x">> }

\* persisted rows found before the first run
OldRow(prior) ==
  [party_name |-> PP, seats_2025 |-> Num(1), vote_pct_2025 |-> Null,
   seats_2023 |-> prior, updated_at |-> 0, pct_escrutado |-> Null]
InitStores ==
  { <<>>,
    [id \in {<<"p", "p">>} |-> OldRow(Num(12))],
    [id \in {<<"p", "p">>, <<"v", "o", "x">>} |-> OldRow(Null)],
    [id \in {<<"p", "s", "o", "e">>} |-> OldRow(Num(28))] }

(***************************************************************************)
(* State.                                                                  *)
(***************************************************************************)
VARIABLES
  pub,      \* number of the snapshot the feed publishes now
  envio,    \* body served by getEnvio
  feed,     \* the bodies served by getEscrutinioTotales, by snapshot
  store,    \* table pactometro_results: party_id -> columns
  clock,    \* runs started so far; the time new Date() reads
  run,      \* per run: position in main and its local variables
  prev,     \* what the previous run of the sequence fetched and left
  rowSnap   \* per persisted row: the snapshot its values were decoded from

vars == <<pub, envio, feed, store, clock, run, prev, rowSnap>>

Runs == {1, 2}

\* a run before main is entered
IdleRun ==
  [pc |-> "idle", numEnv |-> <<>>, lineaCM |-> <<>>, pctEscrutado |-> Null,
   candidaturas |-> <<>>, existentes |-> <<>>, rows |-> <<>>,
   exit |-> -1, err |-> "none", io |-> <<>>, seen |-> <<>>, snap |-> 0]

Io(op, target, rows) == [op |-> op, target |-> target, rows |-> rows]

\* the columns of the table other than updated_at
Persisted(table) ==
  [id \in DOMAIN table |->
     [party_name |-> table[id].party_name,
      seats_2025 |-> table[id].seats_2025,
      vote_pct_2025 |-> table[id].vote_pct_2025,
      seats_2023 |-> table[id].seats_2023,
      pct_escrutado |-> table[id].pct_escrutado]]

InitRest ==
  /\ clock = 0
  /\ run = [r \in Runs |-> IdleRun]
  /\ prev = [valid |-> FALSE, seen |-> <<>>, store |-> <<>>, exit |-> -1]
  /\ rowSnap = [id \in DOMAIN store |-> 0]

Init ==
  /\ pub = 1
  /\ envio \in EnvioBodies(1)
  /\ feed \in Feeds
  /\ store \in InitStores
  /\ InitRest

(***************************************************************************)
(* The steps of main, one per await.                                       *)
(***************************************************************************)
\* variant: the catch block logs the error and lets the process end normally
Exit_swallowed(r, status, err) ==
  run' = [run EXCEPT ![r] = [@ EXCEPT !.pc = "done", !.exit = 0, !.err = err]]

\* process exit: status 1 from the catch block, 0 at the end of main
Exit(r, status, err) ==
  run' = [run EXCEPT ![r] = [@ EXCEPT !.pc = "done", !.exit = status, !.err = err]]

\* the feed publishes its next snapshot
Publish ==
  /\ pub < MaxSnap
  /\ pub' = pub + 1
  /\ envio' \in EnvioBodies(pub + 1)
  /\ UNCHANGED <<feed, store, clock, run, prev, rowSnap>>

\* main is entered and getCurrentNumEnv sends its request
Start(r) ==
  /\ run[r].pc \in {"idle", "done"}
  /\ clock < MaxRuns
  /\ clock' = clock + 1
  /\ run' = [run EXCEPT ![r] =
               [IdleRun EXCEPT !.pc = "getEnvio",
                               !.io = <<Io("fetch", "getEnvio", <<>>)>>]]
  /\ prev' = IF run[r].pc = "done"
             THEN [valid |-> TRUE, seen |-> run[r].seen,
                   store |-> Persisted(store), exit |-> run[r].exit]
             ELSE prev
  /\ UNCHANGED <<pub, envio, feed, store, rowSnap>>

\* fetchFromJunta throws: the response is not ok, or fetch itself fails
GetEnvioHttpError(r) ==
  /\ run[r].pc = "getEnvio"
  /\ Exit(r, 1, "http")
  /\ UNCHANGED <<pub, envio, feed, store, clock, prev, rowSnap>>

\* the body yields no numEnv
GetEnvioMalformed(r) ==
  /\ run[r].pc = "getEnvio"
  /\ getCurrentNumEnv(envio) = <<>>
  /\ Exit(r, 1, "malformed")
  /\ UNCHANGED <<pub, envio, feed, store, clock, prev, rowSnap>>

\* numEnv is returned and getTotalesLineaCM sends its request
GetEnvioOk(r) ==
  /\ run[r].pc = "getEnvio"
  /\ getCurrentNumEnv(envio) # <<>>
  /\ run' = [run EXCEPT ![r] =
               [@ EXCEPT !.pc = "getTotales",
                         !.numEnv = getCurrentNumEnv(envio),
                         !.seen = <<envio>>,
                         !.io = Append(@, Io("fetch", "getEscrutinioTotales", <<>>))]]
  /\ UNCHANGED <<pub, envio, feed, store, clock, prev, rowSnap>>

\* the snapshots the feed can serve under the id numEnv
Served(numEnv) == {n \in 1..pub : IdStr(n) = numEnv}

GetTotalesHttpError(r) ==
  /\ run[r].pc = "getTotales"
  /\ Exit(r, 1, "http")
  /\ UNCHANGED <<pub, envio, feed, store, clock, prev, rowSnap>>

\* no line of the body is a CM line
GetTotalesNoCM(r) ==
  /\ run[r].pc = "getTotales"
  /\ \E n \in Served(run[r].numEnv) :
        /\ getTotalesLineaCM(TotalesOf(feed, n)) = 0
        /\ run' = [run EXCEPT ![r] =
                     [@ EXCEPT !.pc = "done", !.exit = 1, !.err = "noCM",
                               !.seen = Append(@, TotalesOf(feed, n)), !.snap = n]]
  /\ UNCHANGED <<pub, envio, feed, store, clock, prev, rowSnap>>

\* the CM line decodes to no candidacy: upsertCandidaturasEnSupabase
\* returns at once and main completes
GetTotalesNothing(r) ==
  /\ run[r].pc = "getTotales"
  /\ \E n \in Served(run[r].numEnv) :
        LET lines == TotalesOf(feed, n)
            at == getTotalesLineaCM(lines)
        IN  /\ at # 0
            /\ parseCandidaturasFromLineaCM(lines[at]) = <<>>
            /\ run' = [run EXCEPT ![r] =
                         [@ EXCEPT !.pc = "done", !.exit = 0,
                                   !.lineaCM = lines[at],
                                   !.pctEscrutado = getPctEscrutadoFromLineaCM(lines[at]),
                                   !.seen = Append(@, lines), !.snap = n]]
  /\ UNCHANGED <<pub, envio, feed, store, clock, prev, rowSnap>>

\* the CM line is decoded and the select of the existing rows is sent
GetTotalesOk(r) ==
  /\ run[r].pc = "getTotales"
  /\ \E n \in Served(run[r].numEnv) :
        LET lines == TotalesOf(feed, n)
            at == getTotalesLineaCM(lines)
        IN  /\ at # 0
            /\ parseCandidaturasFromLineaCM(lines[at]) # <<>>
            /\ run' = [run EXCEPT ![r] =
                         [@ EXCEPT !.pc = "select",
                                   !.lineaCM = lines[at],
                                   !.pctEscrutado = getPctEscrutadoFromLineaCM(lines[at]),
                                   !.candidaturas = parseCandidaturasFromLineaCM(lines[at]),
                                   !.seen = Append(@, lines), !.snap = n,
                                   !.io = Append(@, Io("select", TABLE, <<>>))]]
  /\ UNCHANGED <<pub, envio, feed, store, clock, prev, rowSnap>>

\* errorExistentes is thrown
SelectError(r) ==
  /\ run[r].pc = "select"
  /\ Exit(r, 1, "read")
  /\ UNCHANGED <<pub, envio, feed, store, clock, prev, rowSnap>>

\* the existing rows arrive, the rows are built and the upsert is sent
SelectOk(r) ==
  /\ run[r].pc = "select"
  /\ LET mapa == mapaExistentes(store)
         rows == buildRows(run[r].candidaturas, mapa, run[r].pctEscrutado, clock)
     IN  run' = [run EXCEPT ![r] =
                   [@ EXCEPT !.pc = "upsert", !.existentes = mapa, !.rows = rows,
                             !.io = Append(@, Io("upsert", TABLE, rows))]]
  /\ UNCHANGED <<pub, envio, feed, store, clock, prev, rowSnap>>

\* the upsert fails and its error is thrown: no row is written
UpsertError(r) ==
  /\ run[r].pc = "upsert"
  /\ Exit(r, 1, "write")
  /\ UNCHANGED <<pub, envio, feed, store, clock, prev, rowSnap>>

\* the upsert succeeds and main completes
UpsertOk(r) ==
  /\ run[r].pc = "upsert"
  /\ ~HasDuplicateIds(run[r].rows)
  /\ store' = applyUpsert(store, run[r].rows)
  /\ rowSnap' = [id \in DOMAIN store' |->
                   IF id \in RowIds(run[r].rows) THEN run[r].snap ELSE rowSnap[id]]
  /\ Exit(r, 0, "none")
  /\ UNCHANGED <<pub, envio, feed, clock, prev>>

Step(r) ==
  \/ Start(r)
  \/ GetEnvioHttpError(r) \/ GetEnvioMalformed(r) \/ GetEnvioOk(r)
  \/ GetTotalesHttpError(r) \/ GetTotalesNoCM(r) \/ GetTotalesNothing(r)
  \/ GetTotalesOk(r)
  \/ SelectError(r) \/ SelectOk(r)
  \/ UpsertError(r) \/ UpsertOk(r)

\* runs one after the other: the scheduled job
Next == Publish \/ Step(1)
Spec == Init /\ [][Next]_vars

\* the steps that end an await: the transport answers or fails
Progress(r) ==
  \/ GetEnvioHttpError(r) \/ GetEnvioMalformed(r) \/ GetEnvioOk(r)
  \/ GetTotalesHttpError(r) \/ GetTotalesNoCM(r) \/ GetTotalesNothing(r)
  \/ GetTotalesOk(r)
  \/ SelectError(r) \/ SelectOk(r)
  \/ UpsertError(r) \/ UpsertOk(r)
SpecFair == Spec /\ WF_vars(Progress(1))

\* two scheduled invocations that overlap
NextConc == Publish \/ \E r \in Runs : Step(r)
SpecConc == Init /\ [][NextConc]_vars

(***************************************************************************)
(* The sequence resolver on every short body.                              *)
(***************************************************************************)
ResolverChars == {"5", "1", ";", " ", "\n"}
RECURSIVE StringsUpTo(_, _)
StringsUpTo(chars, n) ==
  IF n = 0 THEN {<<>>}
  ELSE LET shorter == StringsUpTo(chars, n - 1)
       IN  shorter \cup {Append(s, c) : s \in {t \in shorter : Len(t) = n - 1}, c \in chars}

InitResolver ==
  /\ pub = 1
  /\ envio \in StringsUpTo(ResolverChars, MaxBody)
  /\ feed \in {<<BodyE2E>>, <<BodyNoCM>>, <<BodyUnused>>}
  /\ store = <<>>
  /\ InitRest
NextResolver == Step(1)
SpecResolver == InitResolver /\ [][NextResolver]_vars

(***************************************************************************)
(* The candidacy decoder on every record of a bounded shape.               *)
(***************************************************************************)
GroupCodes == {<<>>, <<" ">>, SENTINEL_0000, <<" ", "0", "1", " ">>}
GroupNames == {<<" ">>, PP, <<" ", "P", " ", "\t", "p", " ">>, PODEMOS_IU_AV}
GroupNumbers == {<< <<>>, <<>>, <<>> >>, << <<"1", "0">>, <<"3", "7", "8", "1">>, <<"5">> >>}
GroupSet == {<<c, n>> \o v : c \in GroupCodes, n \in GroupNames, v \in GroupNumbers}

RECURSIVE GroupSeqs(_)
GroupSeqs(n) ==
  IF n = 0 THEN {<<>>}
  ELSE LET shorter == GroupSeqs(n - 1)
       IN  shorter \cup {s \o g : s \in {t \in shorter : Len(t) = GROUP_FIELDS * (n - 1)},
                                  g \in GroupSet}
\* the remainders: the first fields of one more retained group
RestOf(k) == SubSeq(<<C2Code, VOX, <<"7">>, <<"9">>, <<"1">>, C1Code, PP>>, 1, k)

\* a header of 22 fields, then the groups and the remainder
FullRecords(groups) ==
  { Hdr(TAG_CM, REGION, <<"5", "6", "7", "8">>) \o gs \o RestOf(k) :
      gs \in GroupSeqs(groups), k \in 0..MaxRest }
\* the decoder inputs: the full records, and the records of at most one
\* group whose header is cut short by a field
DecoderInputs == FullRecords(MaxGroups) \cup {Tail(full) : full \in FullRecords(1)}

InitDecoder ==
  /\ pub = 1
  /\ envio = IdStr(1)
  /\ feed = <<BodyE2E>>
  /\ store = <<>>
  /\ clock = 0
  /\ \E fields \in DecoderInputs :
        run = [r \in Runs |-> IF r = 1
                              THEN [IdleRun EXCEPT !.pc = "decode", !.lineaCM = fields]
                              ELSE IdleRun]
  /\ prev = [valid |-> FALSE, seen |-> <<>>, store |-> <<>>, exit |-> -1]
  /\ rowSnap = <<>>

\* main's two decoding calls on the line
Decode(r) ==
  /\ run[r].pc = "decode"
  /\ run' = [run EXCEPT ![r] =
               [@ EXCEPT !.pc = "decoded",
                         !.pctEscrutado = getPctEscrutadoFromLineaCM(run[r].lineaCM),
                         !.candidaturas = parseCandidaturasFromLineaCM(run[r].lineaCM)]]
  /\ UNCHANGED <<pub, envio, feed, store, clock, prev, rowSnap>>
NextDecoder == Decode(1)
SpecDecoder == InitDecoder /\ [][NextDecoder]_vars

(***************************************************************************)
(* Properties of the sequence of runs.                                     *)
(***************************************************************************)
ID_PP == <<"p", "p">>
ID_PODEMOS == <<"p", "o", "d", "e", "m", "o", "s", "i", "u", "a", "v">>

Upserts(r) == SelectSeq(run[r].io, LAMBDA e : e.op = "upsert")
\* the rows a run sends to a table other than pactometro_results
RECURSIVE CountRows(_)
CountRows(calls) == IF calls = <<>> THEN 0 ELSE Len(Head(calls).rows) + CountRows(Tail(calls))
ProvinceRowsSent(r) == CountRows(SelectSeq(Upserts(r), LAMBDA e : e.target # TABLE))
TagCount(lines, tag) ==
  Cardinality({i \in 1..Len(lines) : Len(lines[i]) >= 2 /\ lines[i][2] = tag})
\* the candidacies retained over all the PR lines of a body
RECURSIVE ProvinceCandidacies(_)
ProvinceCandidacies(lines) ==
  IF lines = <<>> THEN 0
  ELSE (IF Len(Head(lines)) >= 2 /\ Head(lines)[2] = TAG_PR
        THEN Len(parseCandidaturasFromLineaCM(Head(lines))) ELSE 0)
       + ProvinceCandidacies(Tail(lines))

\* C1, first half: every row of the batch carries the prior-period seats
\* persisted under its identifier, and 0 when the identifier is not persisted
C1_RowsCarry ==
  run[1].pc = "upsert" =>
    /\ Len(run[1].rows) = Len(run[1].candidaturas)
    /\ \A i \in 1..Len(run[1].rows) :
         LET id == run[1].candidaturas[i].party_id IN
         /\ run[1].rows[i].party_id = id
         /\ run[1].rows[i].seats_2023 =
              IF id \in DOMAIN store THEN store[id].seats_2023 ELSE Num(0)
\* C1, second half: no step changes the prior-period seats of a persisted row
C1_PriorKept ==
  \A id \in DOMAIN store :
    id \in DOMAIN store' /\ store'[id].seats_2023 = store[id].seats_2023
\* C1: across any sequence of runs the upsert rows carry the persisted
\* prior-period seats (0 for a first-seen identifier), so that the
\* prior-period seats of a persisted row never change
C1_PriorSeatsCarried == []C1_RowsCarry /\ [][C1_PriorKept]_vars
C1_Witness ==
  /\ run[1].pc = "done" /\ run[1].exit = 0
  /\ ID_PP \in DOMAIN store /\ ID_PODEMOS \in DOMAIN store
  /\ store[ID_PP].seats_2023 = Num(12) /\ store[ID_PP].updated_at > 0
  /\ store[ID_PODEMOS].seats_2023 = Num(0)

C3_SameAfterRerun ==
  (run[1].pc = "done" /\ prev.valid /\ prev.exit = 0 /\ run[1].seen = prev.seen)
  => Persisted(store) = prev.store
\* C3, second half: no step removes a persisted row
C3_NoDelete == DOMAIN store \subseteq DOMAIN store'
\* C3: running the pipeline twice in a row on the same feed content leaves
\* the persisted rows, updated_at apart, as the first run left them, and
\* no run deletes a row
C3_Idempotent == []C3_SameAfterRerun /\ [][C3_NoDelete]_vars
C3_Witness ==
  /\ run[1].pc = "done" /\ run[1].exit = 0
  /\ prev.valid /\ prev.exit = 0 /\ run[1].seen = prev.seen
  /\ Len(Upserts(1)) = 1
  /\ ID_PP \in DOMAIN store /\ store[ID_PP].updated_at = clock /\ clock >= 2
  /\ Cardinality(DOMAIN store) >= 2
  /\ Persisted(store) = prev.store

\* C4, the exit status: an error ends the run with status 1 and a run that
\* met one of the errors before the upsert never sent the upsert; status 0
\* means no error and, when there was a candidacy, the rows are persisted
C4_ExitStatus ==
  /\ run[1].pc = "done" <=> run[1].exit \in {0, 1}
  /\ run[1].err # "none" => run[1].exit = 1
  /\ run[1].exit = 1 => run[1].err # "none"
  /\ run[1].err \in {"http", "malformed", "noCM", "read"} => Upserts(1) = <<>>
  /\ run[1].err \in {"http", "malformed", "noCM"} =>
       SelectSeq(run[1].io, LAMBDA e : e.op = "select") = <<>>
  /\ run[1].exit = 0 =>
       \/ run[1].candidaturas = <<>> /\ Upserts(1) = <<>>
       \/ /\ Len(Upserts(1)) = 1
          /\ \A i \in 1..Len(run[1].rows) :
               /\ run[1].rows[i].party_id \in DOMAIN store
               /\ store[run[1].rows[i].party_id] = RowColumns(run[1].rows[i])
\* C4, the writes: the step that raises an error and the steps after it
\* leave the table as it is
C4_NoWriteOnError ==
  (run[1].err # "none" \/ run'[1].err # "none") => store' = store
\* C4, termination: a run that has started ends
C4_Ends == (run[1].pc \notin {"idle", "done"}) ~> (run[1].pc = "done")
\* C4: every run terminates; a run with a fatal error exits non-zero, writes
\* nothing after the error and, after a failed read, never sends the
\* upsert; a run exits zero only without error and with its upsert done
C4_FatalErrors == []C4_ExitStatus /\ [][C4_NoWriteOnError]_vars /\ C4_Ends
C4_Witness ==
  /\ run[1].pc = "done" /\ run[1].exit = 1 /\ run[1].err = "read"
  /\ run[1].candidaturas # <<>>
  /\ Upserts(1) = <<>>

\* C5 as stated: the row takes its current seats, vote percentage, total
\* votes and percentage of the roll counted from the fresh decode
C5_RowHasTotalVotes ==
  run[1].pc = "upsert" =>
    \A i \in 1..Len(run[1].rows) :
      /\ run[1].rows[i].seats_2025 = run[1].candidaturas[i].seats_2025
      /\ run[1].rows[i].vote_pct_2025 = run[1].candidaturas[i].vote_pct_2025
      /\ run[1].rows[i].pct_escrutado = run[1].pctEscrutado
      /\ "votos_totales" \in DOMAIN run[1].rows[i]
      /\ run[1].rows[i]["votos_totales"] = run[1].candidaturas[i].votos_totales
\* C5, amended: every row takes its display name, current seats and vote
\* percentage from the run's decode of the CM line and its percentage of
\* the roll counted from field 9 of that line, never from the persisted
\* row; the decoded total votes are not part of the row; after the upsert
\* those columns of the persisted row hold the decoded values
C5_FreshValues ==
  /\ run[1].pc \in {"upsert", "done"} /\ run[1].rows # <<>> =>
       /\ Len(run[1].rows) = Len(run[1].candidaturas)
       /\ \A i \in 1..Len(run[1].rows) :
            LET row == run[1].rows[i]
                c == parseCandidaturasFromLineaCM(run[1].lineaCM)[i] IN
            /\ DOMAIN row = {"party_id", "party_name", "seats_2025", "vote_pct_2025",
                              "seats_2023", "updated_at", "pct_escrutado"}
            /\ row.party_name = c.party_name
            /\ row.seats_2025 = c.seats_2025
            /\ row.vote_pct_2025 = c.vote_pct_2025
            /\ row.pct_escrutado = getPctEscrutadoFromLineaCM(run[1].lineaCM)
            /\ row.updated_at = clock
  /\ run[1].pc = "done" /\ run[1].exit = 0 =>
       \A i \in 1..Len(run[1].rows) :
         LET id == run[1].rows[i].party_id
             c == run[1].candidaturas[i] IN
         /\ id \in DOMAIN store
         /\ store[id].party_name = c.party_name
         /\ store[id].seats_2025 = c.seats_2025
         /\ store[id].vote_pct_2025 = c.vote_pct_2025
         /\ store[id].pct_escrutado = run[1].pctEscrutado
         /\ store[id].updated_at = clock
C5_Witness ==
  /\ run[1].pc = "done" /\ run[1].exit = 0
  /\ Len(run[1].seen) = 2 /\ run[1].seen[2] = BodyLater
  /\ prev.valid /\ ID_PP \in DOMAIN prev.store
  /\ prev.store[ID_PP].seats_2025 = Num(5)
  /\ store[ID_PP].seats_2025 = Num(7)
  /\ store[ID_PP].vote_pct_2025 = [k |-> "num", v |-> 1003, d |-> 25]
  /\ store[ID_PP].pct_escrutado = Num(90)
  /\ store[ID_PODEMOS].vote_pct_2025 = Null
  /\ store[ID_PODEMOS].party_name = UNIDAS_POR_EXTREMADURA

\* C10: the rows of a batch have pairwise distinct, non-empty identifiers
C10_DistinctIds ==
  run[1].pc = "upsert" =>
    /\ \A i \in 1..Len(run[1].rows) : run[1].rows[i].party_id # <<>>
    /\ \A i, j \in 1..Len(run[1].rows) :
         i # j => run[1].rows[i].party_id # run[1].rows[j].party_id

(***************************************************************************)
(* Properties of the sequence resolver.                                    *)
(***************************************************************************)
Min(set) == CHOOSE x \in set : \A y \in set : x <= y
Max(set) == CHOOSE x \in set : \A y \in set : x >= y
\* s without its leading and trailing whitespace, by positions
Trimmed(s) ==
  LET ink == {i \in 1..Len(s) : s[i] \notin WS}
  IN  IF ink = {} THEN <<>> ELSE SubSeq(s, Min(ink), Max(ink))
PositionsOf(s, c) == {i \in 1..Len(s) : s[i] = c}
\* the text before the first line break of the trimmed body
FirstLine(csv) ==
  LET t == Trimmed(csv)
      breaks == PositionsOf(t, "\n")
  IN  IF breaks = {} THEN t ELSE SubSeq(t, 1, Min(breaks) - 1)
\* the snapshot id the contract asks for: the single field, or the second
ExpectedNumEnv(csv) ==
  LET line == FirstLine(csv)
      semis == PositionsOf(line, ";")
  IN  IF semis = {} THEN Trimmed(line)
      ELSE LET from == Min(semis) + 1
               later == {i \in semis : i >= from}
               to == IF later = {} THEN Len(line) ELSE Min(later) - 1
           IN  Trimmed(SubSeq(line, from, to))

\* C6: the resolver returns the trimmed single field of the first line, or
\* its trimmed second field when there are several, and when that value is
\* empty the run fails having fetched no totals and touched no table
C6_Resolver ==
  LET want == ExpectedNumEnv(envio) IN
  /\ run[1].seen # <<>> => run[1].numEnv = want /\ want # <<>>
  /\ run[1].err = "malformed" => want = <<>>
  /\ want = <<>> =>
       /\ run[1].seen = <<>>
       /\ run[1].io \in {<<>>, <<Io("fetch", "getEnvio", <<>>)>>}
       /\ run[1].pc = "done" => run[1].exit = 1
C6_Witness ==
  /\ envio = <<";", "5", "1">>
  /\ run[1].numEnv = IdStr(1)
  /\ run[1].pc = "done" /\ run[1].exit = 0
  /\ ID_PP \in DOMAIN store

(***************************************************************************)
(* Properties of the candidacy decoder.                                    *)
(***************************************************************************)
\* the complete 5-field groups that follow the 22 header fields
GroupCount(fields) ==
  IF Len(fields) < NUM_HEADER_FIELDS THEN 0
  ELSE (Len(fields) - NUM_HEADER_FIELDS) \div GROUP_FIELDS
GroupField(fields, j, k) == fields[NUM_HEADER_FIELDS + GROUP_FIELDS * (j - 1) + k]
\* the groups the claim retains, reading the code as it stands
RetainedRaw(fields) ==
  {j \in 1..GroupCount(fields) :
     /\ GroupField(fields, j, 1) # <<>>
     /\ GroupField(fields, j, 1) # SENTINEL_0000
     /\ Trimmed(GroupField(fields, j, 2)) # <<>>}
\* the groups retained, reading the code trimmed
Retained(fields) ==
  {j \in 1..GroupCount(fields) :
     /\ Trimmed(GroupField(fields, j, 1)) # <<>>
     /\ Trimmed(GroupField(fields, j, 1)) # SENTINEL_0000
     /\ Trimmed(GroupField(fields, j, 2)) # <<>>}
\* the place in the output of retained group j
Rank(kept, j) == Cardinality({x \in kept : x <= j})

\* C7 as stated: one result per complete group whose code is non-empty and
\* not '0000' and whose trimmed short name is non-empty
C7_OnePerRawGroup ==
  run[1].pc = "decoded" =>
    Len(run[1].candidaturas) = Cardinality(RetainedRaw(run[1].lineaCM))
\* C7, amended: the output is, in order of appearance, one result per
\* complete 5-field group after the 22 header fields whose trimmed code is
\* non-empty and not '0000' and whose trimmed short name is non-empty, with
\* the values of that group; a remainder of fewer than 5 fields and a
\* skipped group yield nothing
C7_OnePerRetainedGroup ==
  run[1].pc = "decoded" =>
    LET fields == run[1].lineaCM
        out == run[1].candidaturas
        kept == Retained(fields)
    IN  /\ Len(out) = Cardinality(kept)
        /\ \A j \in kept :
             LET o == out[Rank(kept, j)]
                 votosRaw == GroupField(fields, j, 3)
                 pctRaw == GroupField(fields, j, 4)
                 escanosRaw == GroupField(fields, j, 5)
             IN  /\ o.codigo_candidatura = Trimmed(GroupField(fields, j, 1))
                 /\ o.party_name \in {Trimmed(GroupField(fields, j, 2)), UNIDAS_POR_EXTREMADURA}
                 /\ o.votos_totales = IF votosRaw = <<>> THEN Num(0) ELSE Number(votosRaw)
                 /\ o.vote_pct_2025 = IF pctRaw = <<>> THEN Null ELSE Div100(Number(pctRaw))
                 /\ o.seats_2025 = IF escanosRaw = <<>> THEN Num(0) ELSE Number(escanosRaw)
C7_Witness ==
  /\ run[1].pc = "decoded"
  /\ Len(run[1].lineaCM) = NUM_HEADER_FIELDS + 2 * GROUP_FIELDS + 3
  /\ GroupField(run[1].lineaCM, 1, 1) = SENTINEL_0000
  /\ GroupField(run[1].lineaCM, 1, 2) = PP
  /\ GroupField(run[1].lineaCM, 1, 5) = <<"5">>
  /\ Len(run[1].candidaturas) = 1
  /\ run[1].candidaturas[1].codigo_candidatura = <<"0", "1">>
  /\ run[1].candidaturas[1].vote_pct_2025 = [k |-> "num", v |-> 3781, d |-> 100]

\* the identifier the contract derives from a short name, by positions:
\* the first character of each whitespace run gives '_', a character that
\* lower-cases into [a-z0-9_] gives that character, the others nothing
ExpectedId(name) ==
  LET gives == {i \in 1..Len(name) :
                  \/ name[i] \in WS /\ (i = 1 \/ name[i - 1] \notin WS)
                  \/ name[i] \notin WS /\ LowerChar(name[i]) \in WordChars}
  IN  [n \in 1..Cardinality(gives) |->
         LET i == CHOOSE x \in gives : Rank(gives, x) = n
         IN  IF name[i] \in WS THEN "_" ELSE LowerChar(name[i])]

\* C8: the identifier of a retained group is derived from its short name
\* alone and the override changes the display name only: PODEMOS-IU-AV is
\* shown as Unidas por Extremadura with the identifier of PODEMOS-IU-AV,
\* every other short name is shown as it is
C8_IdFromShortName ==
  run[1].pc = "decoded" =>
    LET fields == run[1].lineaCM
        out == run[1].candidaturas
        kept == Retained(fields)
    IN  /\ Len(out) = Cardinality(kept)
        /\ \A j \in kept :
             LET o == out[Rank(kept, j)]
                 name == Trimmed(GroupField(fields, j, 2))
             IN  /\ o.party_id = ExpectedId(name)
                 /\ name = PODEMOS_IU_AV =>
                      o.party_name = UNIDAS_POR_EXTREMADURA /\ o.party_id = ID_PODEMOS
                 /\ name # PODEMOS_IU_AV => o.party_name = name
                 /\ \A j2 \in kept :
                      Trimmed(GroupField(fields, j2, 2)) = name
                        => out[Rank(kept, j2)].party_id = o.party_id
C8_Witness ==
  /\ run[1].pc = "decoded"
  /\ Len(run[1].candidaturas) = 2
  /\ run[1].candidaturas[1].party_name = UNIDAS_POR_EXTREMADURA
  /\ run[1].candidaturas[1].party_id = ID_PODEMOS
  /\ run[1].candidaturas[2].party_name = <<"P", " ", "\t", "p">>
  /\ run[1].candidaturas[2].party_id = <<"p", "_", "p">>

(***************************************************************************)
(* Properties of overlapping runs.                                         *)
(***************************************************************************)
\* C9: the values persisted for a row are never older than those of a run
\* that completed a write of that row
C9_NeverOlder ==
  \A r \in Runs :
    (run[r].pc = "done" /\ run[r].exit = 0) =>
      \A id \in RowIds(run[r].rows) : rowSnap[id] >= run[r].snap

=============================================================================
